---- MODULE Spec2Model ----
(***************************************************************************)
(* Model of the IRCTC ticket booking automation: the orchestrator          *)
(* (IRCTCAutomationService.executeBooking), the browser driver             *)
(* (BrowserService), the PDF emitter (PDFService), the notification        *)
(* service (WhatsAppService) and the process entry point (main).           *)
(* Strings that the program types, matches or rewrites are sequences of    *)
(* one-character strings.                                                  *)
(***************************************************************************)
EXTENDS Integers, Sequences, FiniteSets, TLC

\* ------------------------------------------------------------------ bounds
\* longest passenger list explored
MaxPassengers == 3
\* granularity of the passage of time, in ms
TickMs == 5000
\* longest text / pre-existing content explored for typeText in isolation
MaxStrLen == 2
\* number of consecutive typeText calls explored in isolation
MaxTypeCalls == 2

\* most variables of the environment that differ from the usual setting
MaxOdd == 2
\* most close() calls made on one BrowserService by a caller
MaxCloseCalls == 2

\* ------------------------------------------------------------- small helpers
Range(s) == {s[i] : i \in DOMAIN s}

Min(a, b) == IF a < b THEN a ELSE b

Chars == {"a", "b"}

Strings(n) == UNION {[1..k -> Chars] : k \in 0..n}

\* ------------------------------------------------------------ configuration
\* a passenger is a name, an age and a gender code, all strings
PassengerPool ==
  { [name |-> <<"P", " ", "D">>,      age |-> <<"4", "5">>, gender |-> <<"F">>],
    [name |-> <<"P", " ", " ", "D">>, age |-> <<"5", "0">>, gender |-> <<"M">>],
    [name |-> <<"G">>,                age |-> <<"2", "4">>, gender |-> <<"M">>] }

PassengerLists == UNION {[1..n -> PassengerPool] : n \in 0..MaxPassengers}

\* the AppConfig record returned by Config.getConfig(); every required
\* variable is a non-empty string
AppConfig(passengers, enabled) ==
  [irctc   |-> [userId |-> <<"u", "1">>, password |-> <<"s">>],
   journey |-> [from |-> <<"N">>, to |-> <<"H">>, date |-> <<"2", "2">>,
                passengers |-> passengers,
                contactDetails |-> [contact |-> <<"9">>, address |-> <<"h">>,
                                    pin |-> <<"1">>],
                paymentDetails |-> [cardNo |-> <<"5">>, expiry |-> <<"0">>,
                                    cvv |-> <<"7">>, name |-> <<"T">>]],
   whatsapp |-> [enabled |-> enabled]]

Configs == {AppConfig(ps, en) : ps \in PassengerLists, en \in BOOLEAN}

\* ----------------------------------------------------------- the environment
\* process.env is a function from the names that are set to their values
\* requiredVars of validateRequiredEnvVars, in its order
RequiredVars ==
  << "IRCTC_USER_ID", "IRCTC_PASSWORD", "FROM_STATION", "TO_STATION",
     "JOURNEY_DATE", "CONTACT_NUMBER", "ADDRESS", "PIN_CODE",
     "CARD_NUMBER", "CARD_EXPIRY", "CARD_CVV", "CARD_HOLDER_NAME" >>

FlagVars == {"HEADLESS", "WHATSAPP_ENABLED"}

\* the string 'true'
True == <<"t", "r", "u", "e">>

\* IsMissing that takes the empty string for a value
IsUnset(e, varName) == varName \notin DOMAIN e

\* !process.env[varName]: undefined or the empty string
IsMissing(e, varName) == varName \notin DOMAIN e \/ e[varName] = << >>

\* requiredVars.filter((varName) => !process.env[varName])
MissingVars(e) == SelectSeq(RequiredVars, LAMBDA varName : IsMissing(e, varName))

\* process.env.NAME === 'true'
IsTrue(e, varName) == varName \in DOMAIN e /\ e[varName] = True

\* the sample passengers of loadPassengers
loadPassengers ==
  << [name |-> <<"P", " ", "D">>, age |-> <<"4", "5">>, gender |-> <<"F">>],
     [name |-> <<"G", " ", "P">>, age |-> <<"5", "0">>, gender |-> <<"M">>],
     [name |-> <<"M", " ", "P">>, age |-> <<"2", "4">>, gender |-> <<"M">>],
     [name |-> <<"A", " ", "D">>, age |-> <<"2", "0">>, gender |-> <<"F">>] >>

\* loadConfig with origin and destination read from each other's variable
loadConfigSwapped(e) ==
  [irctc   |-> [userId |-> e["IRCTC_USER_ID"], password |-> e["IRCTC_PASSWORD"]],
   journey |-> [from |-> e["TO_STATION"], to |-> e["FROM_STATION"],
                date |-> e["JOURNEY_DATE"],
                passengers |-> loadPassengers,
                contactDetails |-> [contact |-> e["CONTACT_NUMBER"],
                                    address |-> e["ADDRESS"],
                                    pin |-> e["PIN_CODE"]],
                paymentDetails |-> [cardNo |-> e["CARD_NUMBER"],
                                    expiry |-> e["CARD_EXPIRY"],
                                    cvv |-> e["CARD_CVV"],
                                    name |-> e["CARD_HOLDER_NAME"]]],
   browser  |-> [headless |-> IsTrue(e, "HEADLESS")],
   whatsapp |-> [enabled |-> IsTrue(e, "WHATSAPP_ENABLED")]]

\* the record returned by loadConfig once validation has passed (the two
\* timeouts and the viewport are left out)
loadConfig(e) ==
  [irctc   |-> [userId |-> e["IRCTC_USER_ID"], password |-> e["IRCTC_PASSWORD"]],
   journey |-> [from |-> e["FROM_STATION"], to |-> e["TO_STATION"],
                date |-> e["JOURNEY_DATE"],
                passengers |-> loadPassengers,
                contactDetails |-> [contact |-> e["CONTACT_NUMBER"],
                                    address |-> e["ADDRESS"],
                                    pin |-> e["PIN_CODE"]],
                paymentDetails |-> [cardNo |-> e["CARD_NUMBER"],
                                    expiry |-> e["CARD_EXPIRY"],
                                    cvv |-> e["CARD_CVV"],
                                    name |-> e["CARD_HOLDER_NAME"]]],
   browser  |-> [headless |-> IsTrue(e, "HEADLESS")],
   whatsapp |-> [enabled |-> IsTrue(e, "WHATSAPP_ENABLED")]]

\* the environment a configuration of a run was read from
EnvOf(cfg) ==
  [varName \in Range(RequiredVars) \cup {"WHATSAPP_ENABLED"} |->
     CASE varName = "IRCTC_USER_ID" -> cfg.irctc.userId
       [] varName = "IRCTC_PASSWORD" -> cfg.irctc.password
       [] varName = "FROM_STATION" -> cfg.journey.from
       [] varName = "TO_STATION" -> cfg.journey.to
       [] varName = "JOURNEY_DATE" -> cfg.journey.date
       [] varName = "CONTACT_NUMBER" -> cfg.journey.contactDetails.contact
       [] varName = "ADDRESS" -> cfg.journey.contactDetails.address
       [] varName = "PIN_CODE" -> cfg.journey.contactDetails.pin
       [] varName = "CARD_NUMBER" -> cfg.journey.paymentDetails.cardNo
       [] varName = "CARD_EXPIRY" -> cfg.journey.paymentDetails.expiry
       [] varName = "CARD_CVV" -> cfg.journey.paymentDetails.cvv
       [] varName = "CARD_HOLDER_NAME" -> cfg.journey.paymentDetails.name
       [] varName = "WHATSAPP_ENABLED" ->
            IF cfg.whatsapp.enabled THEN True ELSE <<"f", "a", "l", "s", "e">>]

\* the usual setting: every required variable set, no flag set
BaseEnv == [varName \in Range(RequiredVars) |-> <<"1">>]

\* one variable set to a value, or unset
Deviations ==
  [varName : Range(RequiredVars), set : {TRUE}, val : {<< >>, <<"2">>}]
    \cup [varName : FlagVars, set : {TRUE},
          val : {True, <<"T", "R", "U", "E">>, <<"1">>, << >>}]
    \cup [varName : Range(RequiredVars), set : {FALSE}, val : {<< >>}]

Deviate(e, d) ==
  IF d.set
    THEN [varName \in DOMAIN e \cup {d.varName} |->
            IF varName = d.varName THEN d.val ELSE e[varName]]
    ELSE [varName \in DOMAIN e \ {d.varName} |-> e[varName]]

\* the environments at most k deviations away from the usual setting
RECURSIVE EnvsUpTo(_)
EnvsUpTo(k) ==
  IF k = 0
    THEN {BaseEnv}
    ELSE LET prev == EnvsUpTo(k - 1)
         IN  prev \cup {Deviate(e, d) : e \in prev, d \in Deviations}

Envs == EnvsUpTo(MaxOdd)

\* no configuration: the module has not been loaded, or loading failed
NoConfig == [loaded |-> FALSE]

\* ------------------------------------------------------- selectors and calls
\* a selector: the CSS text and, for the passenger rows, the positional
\* index substituted into div:nth-child(${passengerIndex}); the long
\* selectors of the source are shortened, distinct ones staying distinct
Sel(css) == [css |-> css, nth |-> 0]

PassengerSel(field, passengerIndex) == [css |-> field, nth |-> passengerIndex]

NoSel == Sel("")

\* one call made by a step of the orchestrator
WaitAndClickCall(sel) ==
  [op |-> "waitAndClick", sel |-> sel, text |-> <<>>, key |-> "", ms |-> 0]

TypeTextCall(sel, text) ==
  [op |-> "typeText", sel |-> sel, text |-> text, key |-> "", ms |-> 0]

NavigateToCall(url) ==
  [op |-> "navigateTo", sel |-> Sel(url), text |-> <<>>, key |-> "", ms |-> 0]

KeyboardCall(op, key) ==
  [op |-> op, sel |-> NoSel, text |-> <<>>, key |-> key, ms |-> 0]

WaitCall(ms) ==
  [op |-> "wait", sel |-> NoSel, text |-> <<>>, key |-> "", ms |-> ms]

KeyboardOps == {"keyboard.down", "keyboard.press", "keyboard.up"}

\* ------------------------------------------------- the steps of the orchestrator
navigateToIRCTC ==
  << NavigateToCall("https://www.irctc.co.in/nget/train-search"),
     WaitAndClickCall(Sel("button.btn.btn-primary")) >>

searchTrains(cfg) ==
  << TypeTextCall(Sel("input[aria-controls=pr_id_1_list]"), cfg.journey.from),
     TypeTextCall(Sel("input[aria-controls=pr_id_2_list]"), cfg.journey.to),
     WaitAndClickCall(Sel(".ng-tns-c59-10.ui-calendar")),
     KeyboardCall("keyboard.down", "Control"),
     KeyboardCall("keyboard.press", "a"),
     KeyboardCall("keyboard.up", "Control"),
     TypeTextCall(Sel(".ng-tns-c59-10.ui-calendar"), cfg.journey.date),
     WaitAndClickCall(Sel(".ui-dropdown-trigger-icon")),
     WaitAndClickCall(Sel("label[for=availableBerth]")),
     WaitAndClickCall(Sel(".search_btn.train_Search")) >>

selectTrain ==
  << WaitAndClickCall(Sel("#divMain td:nth-child(1) > div")),
     WaitAndClickCall(Sel("#divMain button.btnDefault.train_Search")),
     WaitAndClickCall(Sel(".ui-confirmdialog-acceptbutton")) >>

loginToIRCTC(cfg) ==
  << WaitAndClickCall(Sel("#userId")),
     TypeTextCall(Sel("#userId"), cfg.irctc.userId),
     WaitAndClickCall(Sel("#pwd")),
     TypeTextCall(Sel("#pwd"), cfg.irctc.password),
     WaitCall(10000),
     WaitAndClickCall(Sel(".search_btn.train_Search")) >>

\* the activation of "add another passenger"
AddPassengerCall == WaitAndClickCall(Sel("#ui-panel-12-content a > span"))

\* AddPassengerLoop counting from 0: one activation per passenger
AddPassengerLoopFromZero(i, length) ==
  [k \in 1..length |-> AddPassengerCall]

\* the first loop of fillPassengerDetails: for (i = 1; i < length; i++)
RECURSIVE AddPassengerLoop(_, _)
AddPassengerLoop(i, length) ==
  IF i < length
    THEN << WaitAndClickCall(Sel("#ui-panel-12-content a > span")) >>
         \o AddPassengerLoop(i + 1, length)
    ELSE << >>

\* PassengerRow with the row addressed by the loop index itself
PassengerRowZeroBased(passenger, i) ==
  LET passengerIndex == i IN
  << WaitAndClickCall(PassengerSel("name", passengerIndex)),
     TypeTextCall(PassengerSel("name", passengerIndex), passenger.name),
     WaitAndClickCall(PassengerSel("age", passengerIndex)),
     TypeTextCall(PassengerSel("age", passengerIndex), passenger.age),
     WaitAndClickCall(PassengerSel("gender", passengerIndex)),
     TypeTextCall(PassengerSel("gender", passengerIndex), passenger.gender),
     KeyboardCall("keyboard.press", "Enter") >>

\* the body of the second loop, for passengers[i] (0-based i)
PassengerRow(passenger, i) ==
  LET passengerIndex == i + 1 IN
  << WaitAndClickCall(PassengerSel("name", passengerIndex)),
     TypeTextCall(PassengerSel("name", passengerIndex), passenger.name),
     WaitAndClickCall(PassengerSel("age", passengerIndex)),
     TypeTextCall(PassengerSel("age", passengerIndex), passenger.age),
     WaitAndClickCall(PassengerSel("gender", passengerIndex)),
     TypeTextCall(PassengerSel("gender", passengerIndex), passenger.gender),
     KeyboardCall("keyboard.press", "Enter") >>

\* the second loop: for (i = 0; i < length; i++), passengers[i] is the
\* (i+1)-th element of the sequence
RECURSIVE FillPassengerLoop(_, _)
FillPassengerLoop(passengers, i) ==
  IF i < Len(passengers)
    THEN PassengerRow(passengers[i + 1], i) \o FillPassengerLoop(passengers, i + 1)
    ELSE << >>

fillPassengerDetails(cfg) ==
  AddPassengerLoop(1, Len(cfg.journey.passengers))
    \o FillPassengerLoop(cfg.journey.passengers, 0)

fillContactDetails(cfg) ==
  << WaitAndClickCall(Sel("input[formcontrolname=mobileNumber]")),
     TypeTextCall(Sel("input[formcontrolname=mobileNumber]"),
                  cfg.journey.contactDetails.contact),
     TypeTextCall(Sel("#aaa1"), cfg.journey.contactDetails.address),
     TypeTextCall(Sel("input[formcontrolname=pinCode]"),
                  cfg.journey.contactDetails.pin),
     WaitAndClickCall(Sel("#address-postOffice")),
     TypeTextCall(Sel("#address-postOffice"), <<"B">>),
     KeyboardCall("keyboard.press", "Enter"),
     WaitAndClickCall(Sel("label[for=autoUpgradation]")),
     WaitAndClickCall(Sel("#travelInsuranceOptedYes-0")),
     WaitAndClickCall(Sel(".ui-radiobutton-icon")),
     WaitAndClickCall(Sel(".train_Search.btnDefault")) >>

\* proceedToPayment with the pause issued after the first activation
proceedToPaymentPauseLate ==
  << WaitAndClickCall(Sel(".train_Search.btnDefault")),
     WaitCall(15000),
     WaitAndClickCall(Sel("div.col-pad.col-xs-12.bank-text")),
     WaitAndClickCall(Sel(".btn.btn-primary.hidden-xs")) >>

proceedToPayment ==
  << WaitCall(15000),
     WaitAndClickCall(Sel(".train_Search.btnDefault")),
     WaitAndClickCall(Sel("div.col-pad.col-xs-12.bank-text")),
     WaitAndClickCall(Sel(".btn.btn-primary.hidden-xs")) >>

fillPaymentDetails(cfg) ==
  << WaitAndClickCall(Sel(".userCardNumber")),
     TypeTextCall(Sel(".userCardNumber"), cfg.journey.paymentDetails.cardNo),
     WaitAndClickCall(Sel("#validity")),
     TypeTextCall(Sel("#validity"), cfg.journey.paymentDetails.expiry),
     WaitAndClickCall(Sel("#divCvv")),
     TypeTextCall(Sel("#divCvv"), cfg.journey.paymentDetails.cvv),
     WaitAndClickCall(Sel("input[name=cardName]")),
     TypeTextCall(Sel("input[name=cardName]"), cfg.journey.paymentDetails.name),
     WaitAndClickCall(Sel("#confirm-purchase")) >>

\* the calls of step s (2..9) of executeBooking, in program order
StepScript(s, cfg) ==
  CASE s = 2 -> navigateToIRCTC
    [] s = 3 -> searchTrains(cfg)
    [] s = 4 -> selectTrain
    [] s = 5 -> loginToIRCTC(cfg)
    [] s = 6 -> fillPassengerDetails(cfg)
    [] s = 7 -> fillContactDetails(cfg)
    [] s = 8 -> proceedToPayment
    [] s = 9 -> fillPaymentDetails(cfg)
    [] OTHER -> << >>

\* the line executeBooking prints after step s returned
ProgressLine(s) ==
  CASE s = 1 -> "Browser initialized"
    [] s = 2 -> "Navigated to IRCTC website"
    [] s = 3 -> "Train search completed"
    [] s = 4 -> "Train selected"
    [] s = 5 -> "Login completed"
    [] s = 6 -> "Passenger details filled"
    [] s = 7 -> "Contact details filled"
    [] s = 8 -> "Payment section reached"
    [] s = 9 -> "Payment details filled"
    [] s = 10 -> "PDF tickets generated"
    [] s = 11 -> "Notifications sent"

\* the selectors some step types text into
TextSelectors(cfg) ==
  {c.sel : c \in {d \in UNION {Range(StepScript(s, cfg)) : s \in 2..9} :
                    d.op = "typeText"}}

\* ------------------------------------------------------------------- errors
\* AppError(message, type, originalError) of types/index.ts; arg is the
\* selector or address interpolated into the message
AppError(message, arg, type, hasCause) ==
  [name |-> "AppError", message |-> message, arg |-> arg, type |-> type,
   hasCause |-> hasCause]

\* an error raised by puppeteer itself, not wrapped by any service
RawError ==
  [name |-> "Error", message |-> "puppeteer", arg |-> NoSel, type |-> "",
   hasCause |-> FALSE]

NoErr ==
  [name |-> "", message |-> "", arg |-> NoSel, type |-> "", hasCause |-> FALSE]

NotInitialized ==
  AppError("Browser not initialized", NoSel, "VALIDATION_ERROR", FALSE)

InitializationFailed ==
  AppError("Browser initialization failed", NoSel, "UNKNOWN_ERROR", TRUE)

\* the error call c raises when its page operation fails
CallError(c) ==
  CASE c.op = "navigateTo" ->
         AppError("Navigation failed", c.sel, "NETWORK_ERROR", TRUE)
    [] c.op = "waitAndClick" ->
         AppError("Element click failed", c.sel, "TIMEOUT_ERROR", TRUE)
    [] c.op = "typeText" ->
         AppError("Text input failed", c.sel, "TIMEOUT_ERROR", TRUE)
    [] c.op \in KeyboardOps -> RawError
    [] OTHER -> NoErr

\* ------------------------------------------------------------ a text field
\* content, whether the whole content is selected, and the caret position
Field(content) == [content |-> content, selected |-> FALSE, caret |-> 0]

\* page.click on the field: focus, caret where the pointer lands
ClickField(f, caret) == [f EXCEPT !.selected = FALSE, !.caret = caret]

\* Control+a in the field
SelectAll(f) == [f EXCEPT !.selected = TRUE, !.caret = Len(f.content)]

\* one key stroke: a selection is replaced, otherwise the character is
\* inserted at the caret
TypeChar(f, c) ==
  IF f.selected
    THEN [content |-> <<c>>, selected |-> FALSE, caret |-> 1]
    ELSE [content |-> SubSeq(f.content, 1, f.caret) \o <<c>>
                        \o SubSeq(f.content, f.caret + 1, Len(f.content)),
          selected |-> FALSE, caret |-> f.caret + 1]

\* page.type: the characters of text, one key stroke each
RECURSIVE TypeChars(_, _)
TypeChars(f, text) ==
  IF text = << >> THEN f ELSE TypeChars(TypeChar(f, Head(text)), Tail(text))

\* the field after a successful typeText: click, Control+a, type
typeTextField(f, text) == TypeChars(SelectAll(ClickField(f, 0)), text)

\* the text fields of the site's pages before the run touches them
Stale == <<"x">>

InitialFields(cfg) == [s \in TextSelectors(cfg) |-> Field(Stale)]

\* -------------------------------------------------------------------- state
VARIABLES
  env,               \* process.env: the variables that are set, with their values
  config,            \* the AppConfig handed to the orchestrator
  loadErr,           \* the names listed by the error of validateRequiredEnvVars
  inputSeen,         \* the user typed or the page changed during the pause in progress
  confirmation,      \* the ids on the site's confirmation of the purchase
  browser, page,     \* BrowserService.browser / .page: "null" or "live"
  launched,          \* puppeteer.launch has produced a browser in this run
  sessionLive,       \* initialize has succeeded and no close() has succeeded since
  closeCalls,        \* invocations of BrowserService.close()
  browserCloseCalls, \* invocations of the underlying browser.close()
  fields, focus, ctrlDown,  \* the main page: text fields, focused element, Control key
  mode,              \* where the process is
  step, ip,          \* the step of executeBooking in progress and its next call
  begun,             \* the steps begun, in order
  calls,             \* the BrowserService calls resolved so far (wait: start and end)
  timer,             \* ms left on the pending timer
  printed,           \* the lines executeBooking has written to the console
  pendingErr,        \* the error caught by executeBooking, NoErr if none
  ebOutcome,         \* "none", "running", "completed" or "raised"
  exitStatus,        \* -1 while the process lives, else its exit status
  ticketsData, genIdx, genAttempts, generatedFiles, genOutcome,  \* step 10 locals
  ticketsBuilt,      \* TicketData records built in this run
  files,             \* finished ticket files under tickets/
  fileContent,       \* what each file under tickets/ holds
  whatsappPage,      \* the secondary page: "none" or "open"
  nIdx, nsub,        \* sendMultipleNotifications: passenger and sub-step in progress
  notifAttempts, notifOutcome, \* passengers attempted and how each attempt ended
  pageOps            \* operations done on the secondary page for the current passenger

browserVars == <<browser, page, launched, sessionLive>>
pageVars == <<fields, focus, ctrlDown, confirmation>>
cfgVars == <<config, env, loadErr>>
endVars == <<closeCalls, browserCloseCalls, pendingErr, ebOutcome, exitStatus>>
genVars == <<ticketsData, genIdx, genAttempts, generatedFiles, genOutcome,
             ticketsBuilt, files, fileContent>>
notifVars == <<whatsappPage, nIdx, nsub, notifAttempts, notifOutcome, pageOps>>

vars == <<cfgVars, inputSeen, browserVars, pageVars, endVars, genVars, notifVars,
          mode, step, ip, begun, calls, timer, printed>>

Passengers == config.journey.passengers

StepLen(s) == IF s = 1 THEN 1 ELSE Len(StepScript(s, config))

CurCall == StepScript(step, config)[ip]

AtCall(ops) ==
  /\ mode = "run"
  /\ step \in 2..9
  /\ ip <= StepLen(step)
  /\ CurCall.op \in ops

\* no purchase confirmed on the page
NoConfirmation == [transactionId |-> "", pnrNumber |-> ""]

\* what the site may show once the purchase is confirmed
SiteConfirmations ==
  { [transactionId |-> "0095562596", pnrNumber |-> "6422380568"],
    [transactionId |-> "4400000001", pnrNumber |-> "2100000001"] }

Entry(c, phase, ok) == [step |-> step, call |-> c, phase |-> phase, ok |-> ok]

InitCommon ==
  /\ closeCalls = 0 /\ browserCloseCalls = 0
  /\ focus = NoSel /\ ctrlDown = FALSE
  /\ begun = << >> /\ calls = << >> /\ timer = 0 /\ printed = << >>
  /\ pendingErr = NoErr /\ exitStatus = -1
  /\ ticketsData = << >> /\ genIdx = 1 /\ genAttempts = << >>
  /\ generatedFiles = << >> /\ genOutcome = << >>
  /\ ticketsBuilt = 0 /\ files = {} /\ fileContent = << >>
  /\ whatsappPage = "none" /\ nIdx = 1 /\ nsub = "idle"
  /\ notifAttempts = << >> /\ notifOutcome = << >> /\ pageOps = << >>
  /\ loadErr = << >> /\ inputSeen = FALSE /\ confirmation = NoConfirmation

\* the process after module load: configuration read, services not yet built
Init ==
  /\ config \in Configs
  /\ env = EnvOf(config)
  /\ browser = "null" /\ page = "null" /\ launched = FALSE
  /\ sessionLive = FALSE
  /\ fields = InitialFields(config)
  /\ mode = "start" /\ step = 0 /\ ip = 1 /\ ebOutcome = "none"
  /\ InitCommon

\* ------------------------------------------------- main and executeBooking
\* Settle with a catch block in main that only logs
SettleExitZero(err) ==
  /\ ebOutcome' = IF err = NoErr THEN "completed" ELSE "raised"
  /\ mode' = "mainDone" /\ exitStatus' = exitStatus

\* executeBooking settles and main resumes: its catch ends the process with
\* status 1, otherwise main returns
Settle(err) ==
  /\ ebOutcome' = IF err = NoErr THEN "completed" ELSE "raised"
  /\ IF err = NoErr
       THEN mode' = "mainDone" /\ exitStatus' = exitStatus
       ELSE mode' = "exited" /\ exitStatus' = 1

\* Finally with close() called at the end of the try block only
FinallyNoCloseOnError(err, b) ==
  /\ pendingErr' = err
  /\ IF err = NoErr /\ b = "live"
       THEN /\ closeCalls' = closeCalls + 1
            /\ browserCloseCalls' = browserCloseCalls + 1
            /\ mode' = "closing"
            /\ UNCHANGED <<ebOutcome, exitStatus>>
       ELSE /\ closeCalls' = IF err = NoErr THEN closeCalls + 1 ELSE closeCalls
            /\ UNCHANGED browserCloseCalls
            /\ Settle(err)

\* the finally block of executeBooking, entered with the caught error (or
\* NoErr) while this.browser is b: close() runs up to its first suspension
Finally(err, b) ==
  /\ closeCalls' = closeCalls + 1
  /\ pendingErr' = err
  /\ IF b = "live"
       THEN /\ browserCloseCalls' = browserCloseCalls + 1
            /\ mode' = "closing"
            /\ UNCHANGED <<ebOutcome, exitStatus>>
       ELSE /\ UNCHANGED browserCloseCalls
            /\ Settle(err)

\* the call in progress returned: the step goes on
Continue ==
  /\ ip' = ip + 1
  /\ UNCHANGED <<mode, step, begun, printed, endVars>>

\* Throw with the error swallowed where it arises
ThrowSwallowed(err) == Continue

FailureLine == "Automation failed"

\* ThrowWith with a catch block that rethrows without printing
ThrowWithSilent(err, b) ==
  /\ Finally(err, b)
  /\ UNCHANGED <<step, ip, begun, printed>>

\* an error leaves the step in progress: the catch block prints and rethrows
ThrowWith(err, b) ==
  /\ Finally(err, b)
  /\ printed' = Append(printed, FailureLine)
  /\ UNCHANGED <<step, ip, begun>>

Throw(err) == ThrowWith(err, browser)

\* Resolve with a failed call issued again
ResolveRetry(c, ok, err) ==
  /\ calls' = Append(calls, Entry(c, "end", ok))
  /\ IF ok THEN Continue
           ELSE UNCHANGED <<ip, mode, step, begun, printed, endVars>>

Resolve(c, ok, err) ==
  /\ calls' = Append(calls, Entry(c, "end", ok))
  /\ IF ok THEN Continue ELSE Throw(err)

main ==
  /\ mode = "start"
  /\ mode' = "run" /\ step' = 1 /\ ip' = 1 /\ begun' = <<1>>
  /\ printed' = <<"Starting automation...">>
  /\ ebOutcome' = "running"
  /\ UNCHANGED <<cfgVars, inputSeen, browserVars, pageVars, genVars, notifVars, calls, timer,
                 closeCalls, browserCloseCalls, pendingErr, exitStatus>>

InitializeCall ==
  [op |-> "initialize", sel |-> NoSel, text |-> << >>, key |-> "", ms |-> 0]

\* initialize keeping the launched browser in a local until all of it succeeded
initializeLocalBrowser ==
  /\ mode = "run" /\ step = 1 /\ ip = 1
  /\ \E failedAt \in {"launch", "newPage", "setup", "none"} :
       /\ browser' = IF failedAt = "none" THEN "live" ELSE "null"
       /\ launched' = (failedAt # "launch")
       /\ sessionLive' = (failedAt = "none")
       /\ page' = IF failedAt = "none" THEN "live" ELSE "null"
       /\ calls' = Append(calls, Entry(InitializeCall, "end", failedAt = "none"))
       /\ IF failedAt = "none"
            THEN Continue
            ELSE ThrowWith(InitializationFailed, browser')
  /\ UNCHANGED <<cfgVars, inputSeen, pageVars, genVars, notifVars, timer>>

\* BrowserService.initialize: launch, newPage, setDefaultTimeout, setViewport;
\* failedAt names the first of them that fails
initialize ==
  /\ mode = "run" /\ step = 1 /\ ip = 1
  /\ \E failedAt \in {"launch", "newPage", "setup", "none"} :
       /\ browser' = IF failedAt = "launch" THEN "null" ELSE "live"
       /\ launched' = (failedAt # "launch")
       /\ sessionLive' = (failedAt = "none")
       /\ page' = IF failedAt \in {"launch", "newPage"} THEN "null" ELSE "live"
       /\ calls' = Append(calls, Entry(InitializeCall, "end", failedAt = "none"))
       /\ IF failedAt = "none"
            THEN Continue
            ELSE ThrowWith(InitializationFailed, browser')
  /\ UNCHANGED <<cfgVars, inputSeen, pageVars, genVars, notifVars, timer>>

\* a step of 1..8 returned: its progress line, then the next step begins
StepDone ==
  /\ mode = "run" /\ step \in 1..8 /\ ip > StepLen(step)
  /\ printed' = Append(printed, ProgressLine(step))
  /\ step' = step + 1 /\ ip' = 1
  /\ begun' = Append(begun, step + 1)
  /\ UNCHANGED <<cfgVars, inputSeen, browserVars, pageVars, endVars, genVars, notifVars,
                 mode, calls, timer>>

\* --------------------------------------------- BrowserService in the run
otherVars == <<cfgVars, inputSeen, browserVars, genVars, notifVars, timer>>

navigateTo ==
  /\ AtCall({"navigateTo"})
  /\ IF page = "null"
       THEN Resolve(CurCall, FALSE, NotInitialized) /\ UNCHANGED pageVars
       ELSE \E ok \in BOOLEAN :
              /\ Resolve(CurCall, ok, CallError(CurCall))
              /\ IF ok
                   THEN /\ fields' = InitialFields(config)
                        /\ focus' = NoSel
                        /\ UNCHANGED <<ctrlDown, confirmation>>
                   ELSE UNCHANGED pageVars
  /\ UNCHANGED otherVars

\* page.waitForSelector then page.click: the element takes the focus
waitAndClick ==
  /\ AtCall({"waitAndClick"})
  /\ IF page = "null"
       THEN Resolve(CurCall, FALSE, NotInitialized) /\ UNCHANGED pageVars
       ELSE \E ok \in BOOLEAN :
              /\ Resolve(CurCall, ok, CallError(CurCall))
              /\ IF ok
                   THEN /\ focus' = CurCall.sel
                        /\ IF CurCall.sel \in DOMAIN fields
                             THEN \E caret \in 0..Len(fields[CurCall.sel].content) :
                                    fields' = [fields EXCEPT ![CurCall.sel] =
                                                 ClickField(@, caret)]
                             ELSE UNCHANGED fields
                        /\ IF CurCall.sel = Sel("#confirm-purchase")
                             THEN confirmation' \in SiteConfirmations
                             ELSE UNCHANGED confirmation
                        /\ UNCHANGED ctrlDown
                   ELSE UNCHANGED pageVars
  /\ UNCHANGED otherVars

typeText ==
  /\ AtCall({"typeText"})
  /\ IF page = "null"
       THEN Resolve(CurCall, FALSE, NotInitialized) /\ UNCHANGED pageVars
       ELSE \E ok \in BOOLEAN :
              /\ Resolve(CurCall, ok, CallError(CurCall))
              /\ IF ok
                   THEN /\ focus' = CurCall.sel
                        /\ fields' = [fields EXCEPT ![CurCall.sel] =
                                        typeTextField(@, CurCall.text)]
                        /\ ctrlDown' = FALSE
                        /\ UNCHANGED confirmation
                   ELSE UNCHANGED pageVars
  /\ UNCHANGED otherVars

\* the focused field after keyboard.press(key)
PressKey(f, key, ctrl) ==
  CASE key = "a" /\ ctrl -> SelectAll(f)
    [] key = "a" /\ ~ctrl -> TypeChar(f, "a")
    [] OTHER -> f

\* getPage().keyboard.down / press / up, issued by the step itself
keyboard ==
  /\ AtCall(KeyboardOps)
  /\ IF page = "null"
       THEN Resolve(CurCall, FALSE, NotInitialized) /\ UNCHANGED pageVars
       ELSE \E ok \in BOOLEAN :
              /\ Resolve(CurCall, ok, CallError(CurCall))
              /\ IF ok
                   THEN /\ ctrlDown' = CASE CurCall.op = "keyboard.down" -> TRUE
                                         [] CurCall.op = "keyboard.up" -> FALSE
                                         [] OTHER -> ctrlDown
                        /\ fields' = IF CurCall.op = "keyboard.press"
                                        /\ focus \in DOMAIN fields
                                       THEN [fields EXCEPT ![focus] =
                                               PressKey(@, CurCall.key, ctrlDown)]
                                       ELSE fields
                        /\ UNCHANGED <<focus, confirmation>>
                   ELSE UNCHANGED pageVars
  /\ UNCHANGED otherVars

\* BrowserService.wait(ms): setTimeout(resolve, ms)
wait ==
  /\ AtCall({"wait"})
  /\ timer' = CurCall.ms
  /\ mode' = "waiting"
  /\ calls' = Append(calls, Entry(CurCall, "start", TRUE))
  /\ UNCHANGED <<cfgVars, inputSeen, browserVars, pageVars, endVars, genVars, notifVars,
                 step, ip, begun, printed>>

\* time passes
Tick ==
  /\ timer > 0
  /\ exitStatus = -1
  /\ timer' = timer - Min(timer, TickMs)
  /\ UNCHANGED <<cfgVars, inputSeen, browserVars, pageVars, endVars, genVars, notifVars,
                 mode, step, ip, begun, calls, printed>>

\* while the orchestrator pauses, the user types the captcha or the page
\* changes; nothing in the process listens
userInput ==
  /\ mode = "waiting"
  /\ exitStatus = -1
  /\ ~inputSeen
  /\ inputSeen' = TRUE
  /\ UNCHANGED <<cfgVars, browserVars, pageVars, endVars, genVars, notifVars,
                 mode, step, ip, begun, calls, timer, printed>>

\* waitResolved for a pause that also ends as soon as the user has typed
waitResolvedOnInput ==
  /\ mode = "waiting"
  /\ timer = 0 \/ inputSeen
  /\ mode' = "run"
  /\ ip' = ip + 1
  /\ inputSeen' = FALSE
  /\ calls' = Append(calls, Entry(CurCall, "end", TRUE))
  /\ UNCHANGED <<cfgVars, browserVars, pageVars, endVars, genVars, notifVars,
                 step, begun, timer, printed>>

\* the timer of wait fired: the promise resolves and the step goes on
waitResolved ==
  /\ mode = "waiting"
  /\ timer = 0
  /\ mode' = "run"
  /\ ip' = ip + 1
  /\ inputSeen' = FALSE
  /\ calls' = Append(calls, Entry(CurCall, "end", TRUE))
  /\ UNCHANGED <<cfgVars, browserVars, pageVars, endVars, genVars, notifVars,
                 step, begun, timer, printed>>

\* ------------------------------------------------ step 10: the PDF tickets
TransactionId == "0095562596"

PnrNumber == "6422380568"

\* TicketsData built from the passenger list read backwards
TicketsDataReversed(journey) ==
  [i \in 1..Len(journey.passengers) |->
     LET p == journey.passengers[Len(journey.passengers) + 1 - i] IN
     [passengerName |-> p.name,
      age |-> p.age,
      gender |-> p.gender,
      fromStation |-> journey.from,
      toStation |-> journey.to,
      transactionId |-> TransactionId,
      pnrNumber |-> PnrNumber]]

\* passengers.map(passenger => ({...})) of generateTickets
TicketsData(journey) ==
  [i \in 1..Len(journey.passengers) |->
     [passengerName |-> journey.passengers[i].name,
      age |-> journey.passengers[i].age,
      gender |-> journey.passengers[i].gender,
      fromStation |-> journey.from,
      toStation |-> journey.to,
      transactionId |-> TransactionId,
      pnrNumber |-> PnrNumber]]

\* ReplaceWhitespace replacing every whitespace character by itself (/\s/g)
ReplaceEachWhitespace(s) ==
  [k \in 1..Len(s) |-> IF s[k] = " " THEN "_" ELSE s[k]]

RECURSIVE SkipWhitespace(_)
SkipWhitespace(s) ==
  IF s # << >> /\ Head(s) = " " THEN SkipWhitespace(Tail(s)) ELSE s

\* passengerName.replace(/\s+/g, '_')
RECURSIVE ReplaceWhitespace(_)
ReplaceWhitespace(s) ==
  IF s = << >> THEN << >>
  ELSE IF Head(s) = " "
         THEN <<"_">> \o ReplaceWhitespace(SkipWhitespace(Tail(s)))
         ELSE <<Head(s)>> \o ReplaceWhitespace(Tail(s))

\* the file generateTicket writes for a record
TicketPath(ticketData) ==
  <<"tickets/">> \o ReplaceWhitespace(ticketData.passengerName) \o <<"_ticket.pdf">>

\* a file that was opened for writing and never finished
Partial == "partial"

\* the files under tickets/ once fs.createWriteStream(filePath) has opened
\* filePath and content has been written to it
WriteFile(fc, filePath, content) ==
  [f \in DOMAIN fc \cup {filePath} |-> IF f = filePath THEN content ELSE fc[f]]

\* generateTickets draining the passenger list (shift()) while it builds the
\* records
generateTicketsDraining ==
  /\ mode = "run" /\ step = 9 /\ ip > StepLen(9)
  /\ printed' = Append(printed, ProgressLine(9))
  /\ step' = 10 /\ ip' = 1
  /\ begun' = Append(begun, 10)
  /\ ticketsData' = TicketsData(config.journey)
  /\ ticketsBuilt' = ticketsBuilt + Len(ticketsData')
  /\ config' = [config EXCEPT !.journey.passengers = << >>]
  /\ mode' = "gen"
  /\ genIdx' = 1 /\ genAttempts' = << >>
  /\ generatedFiles' = << >> /\ genOutcome' = << >>
  /\ UNCHANGED <<env, loadErr, inputSeen, browserVars, pageVars, endVars, notifVars,
                 calls, timer, files, fileContent>>

\* step 9 returned; generateTickets builds the records and hands them to
\* generateMultipleTickets
generateTickets ==
  /\ mode = "run" /\ step = 9 /\ ip > StepLen(9)
  /\ printed' = Append(printed, ProgressLine(9))
  /\ step' = 10 /\ ip' = 1
  /\ begun' = Append(begun, 10)
  /\ ticketsData' = TicketsData(config.journey)
  /\ ticketsBuilt' = ticketsBuilt + Len(ticketsData')
  /\ mode' = "gen"
  /\ genIdx' = 1 /\ genAttempts' = << >>
  /\ generatedFiles' = << >> /\ genOutcome' = << >>
  /\ UNCHANGED <<cfgVars, inputSeen, browserVars, pageVars, endVars, notifVars, calls, timer,
                 files, fileContent>>

\* generateMultipleTickets without the try/catch around generateTicket
generateMultipleTicketsUncaught ==
  /\ mode = "gen"
  /\ genIdx <= Len(ticketsData)
  /\ genAttempts' = Append(genAttempts, genIdx)
  /\ genIdx' = genIdx + 1
  /\ \E ok \in BOOLEAN :
       /\ genOutcome' = Append(genOutcome, ok)
       /\ IF ok
            THEN /\ generatedFiles' = Append(generatedFiles,
                                             TicketPath(ticketsData[genIdx]))
                 /\ files' = files \cup {TicketPath(ticketsData[genIdx])}
                 /\ fileContent' = WriteFile(fileContent,
                                             TicketPath(ticketsData[genIdx]),
                                             ticketsData[genIdx])
                 /\ UNCHANGED <<endVars, mode, step, ip, begun, printed>>
            ELSE /\ UNCHANGED <<generatedFiles, files, fileContent>>
                 /\ Throw(AppError("PDF generation failed", NoSel,
                                   "UNKNOWN_ERROR", TRUE))
  /\ UNCHANGED <<cfgVars, inputSeen, browserVars, pageVars, notifVars, calls, timer,
                 ticketsData, ticketsBuilt>>

\* one iteration of the loop of generateMultipleTickets: generateTicket for
\* the next record; when it fails the error is caught and logged, and the
\* file of the record is either untouched (the failure came before the stream
\* was opened) or left unfinished
generateMultipleTickets ==
  /\ mode = "gen"
  /\ genIdx <= Len(ticketsData)
  /\ genAttempts' = Append(genAttempts, genIdx)
  /\ genIdx' = genIdx + 1
  /\ \E ok \in BOOLEAN :
       /\ genOutcome' = Append(genOutcome, ok)
       /\ IF ok
            THEN /\ generatedFiles' = Append(generatedFiles,
                                             TicketPath(ticketsData[genIdx]))
                 /\ files' = files \cup {TicketPath(ticketsData[genIdx])}
                 /\ fileContent' = WriteFile(fileContent,
                                             TicketPath(ticketsData[genIdx]),
                                             ticketsData[genIdx])
            ELSE /\ UNCHANGED generatedFiles
                 /\ \E opened \in BOOLEAN :
                      IF opened
                        THEN /\ files' = files \ {TicketPath(ticketsData[genIdx])}
                             /\ fileContent' = WriteFile(fileContent,
                                                         TicketPath(ticketsData[genIdx]),
                                                         Partial)
                        ELSE UNCHANGED <<files, fileContent>>
  /\ UNCHANGED <<cfgVars, inputSeen, browserVars, pageVars, endVars, notifVars, calls, timer,
                 mode, step, ip, begun, printed, ticketsData, ticketsBuilt>>

\* the loop is over: generateMultipleTickets returns generatedFiles
generateMultipleTicketsReturn ==
  /\ mode = "gen"
  /\ genIdx > Len(ticketsData)
  /\ mode' = "genDone"
  /\ UNCHANGED <<cfgVars, inputSeen, browserVars, pageVars, endVars, genVars, notifVars,
                 calls, timer, step, ip, begun, printed>>

\* ------------------------------------------------ step 11: the notifications
NewPageCall ==
  [op |-> "newPage", sel |-> NoSel, text |-> << >>, key |-> "", ms |-> 0]

\* generateTickets returned (its result is dropped); sendNotifications calls
\* browserService.newPage()
sendNotifications ==
  /\ mode = "genDone"
  /\ printed' = Append(printed, ProgressLine(10))
  /\ step' = 11 /\ ip' = 1
  /\ begun' = Append(begun, 11)
  /\ mode' = "newPage"
  /\ ticketsData' = << >> /\ genIdx' = 1 /\ genAttempts' = << >>
  /\ generatedFiles' = << >> /\ genOutcome' = << >>
  /\ UNCHANGED <<cfgVars, inputSeen, browserVars, pageVars, endVars, notifVars, calls, timer,
                 ticketsBuilt, files, fileContent>>

\* sendMultipleNotifications turns to passenger i: sendNotification returns at
\* once when notifications are disabled, and the pause of 3000 ms follows
StartAttempt(i, outcomes) ==
  /\ mode' = "notif"
  /\ nIdx' = i
  /\ notifAttempts' = Append(notifAttempts, i)
  /\ pageOps' = << >>
  /\ IF config.whatsapp.enabled
       THEN nsub' = "goto" /\ timer' = 0 /\ notifOutcome' = outcomes
       ELSE nsub' = "pause" /\ timer' = 3000
            /\ notifOutcome' = Append(outcomes, "disabled")

\* the for-of loop of sendMultipleNotifications moves on
NextPassenger(outcomes) ==
  IF nIdx < Len(Passengers)
    THEN StartAttempt(nIdx + 1, outcomes)
    ELSE /\ mode' = "notifDone"
         /\ nsub' = "idle" /\ timer' = 0
         /\ notifOutcome' = outcomes
         /\ UNCHANGED <<nIdx, notifAttempts, pageOps>>

\* CatchNotification rethrowing what it caught
CatchNotificationRethrow ==
  /\ Throw(AppError("WhatsApp notification failed", NoSel, "NETWORK_ERROR", TRUE))
  /\ notifOutcome' = Append(notifOutcome, "failed")
  /\ UNCHANGED <<nIdx, nsub, notifAttempts, pageOps, timer>>

\* the catch block of the loop: the error is logged and the loop goes on
CatchNotification ==
  /\ NextPassenger(Append(notifOutcome, "failed"))
  /\ UNCHANGED <<step, ip, begun, printed, endVars>>

\* newPage with its failure logged and the notifications skipped
newPageTolerant ==
  /\ mode = "newPage" /\ ip = 1
  /\ \E failedAt \in {"newPage", "setup", "none"} :
       /\ calls' = Append(calls, Entry(NewPageCall, "end", failedAt = "none"))
       /\ whatsappPage' = IF failedAt = "newPage" THEN "none" ELSE "open"
       /\ IF failedAt = "none" /\ Len(Passengers) > 0
            THEN StartAttempt(1, << >>)
            ELSE /\ mode' = "notifDone"
                 /\ UNCHANGED <<nIdx, nsub, notifAttempts, notifOutcome, pageOps, timer>>
       /\ UNCHANGED <<step, ip, begun, printed, endVars>>
  /\ UNCHANGED <<cfgVars, inputSeen, browserVars, pageVars, genVars>>

\* BrowserService.newPage: browser.newPage then setDefaultTimeout; on success
\* sendMultipleNotifications starts its loop
newPage ==
  /\ mode = "newPage" /\ ip = 1
  /\ IF browser = "null"
       THEN /\ calls' = Append(calls, Entry(NewPageCall, "end", FALSE))
            /\ Throw(NotInitialized)
            /\ UNCHANGED <<notifVars, timer>>
       ELSE \E failedAt \in {"newPage", "setup", "none"} :
              /\ calls' = Append(calls, Entry(NewPageCall, "end", failedAt = "none"))
              /\ whatsappPage' = IF failedAt = "newPage" THEN "none" ELSE "open"
              /\ IF failedAt = "none"
                   THEN /\ IF Len(Passengers) > 0
                             THEN StartAttempt(1, << >>)
                             ELSE /\ mode' = "notifDone"
                                  /\ UNCHANGED <<nIdx, nsub, notifAttempts,
                                                 notifOutcome, pageOps, timer>>
                        /\ UNCHANGED <<step, ip, begun, printed, endVars>>
                   ELSE /\ Throw(RawError)
                        /\ UNCHANGED <<nIdx, nsub, notifAttempts, notifOutcome,
                                       pageOps, timer>>
  /\ UNCHANGED <<cfgVars, inputSeen, browserVars, pageVars, genVars>>

NextSub(sub) ==
  CASE sub = "goto" -> "load"
    [] sub = "load" -> "search"
    [] sub = "search" -> "message"
    [] sub = "message" -> "settle"

\* sendNotification, enabled: page.goto, waitForWhatsAppLoad, searchContact and
\* the typing and sending of sendMessage, each of which may fail
sendNotification ==
  /\ mode = "notif"
  /\ nsub \in {"goto", "load", "search", "message"}
  /\ \E ok \in BOOLEAN :
       IF ok
         THEN /\ pageOps' = Append(pageOps, nsub)
              /\ nsub' = NextSub(nsub)
              /\ timer' = IF nsub = "message" THEN 2000 ELSE 0
              /\ UNCHANGED <<mode, nIdx, notifAttempts, notifOutcome,
                             step, ip, begun, printed, endVars>>
         ELSE CatchNotification
  /\ UNCHANGED <<cfgVars, inputSeen, browserVars, pageVars, genVars, calls, whatsappPage>>

\* page.waitForTimeout(2000) at the end of sendMessage is over (or raised):
\* sendNotification returns and the pause of 3000 ms starts
messageSettled ==
  /\ mode = "notif" /\ nsub = "settle" /\ timer = 0
  /\ \E ok \in BOOLEAN :
       IF ok
         THEN /\ nsub' = "pause" /\ timer' = 3000
              /\ notifOutcome' = Append(notifOutcome, "sent")
              /\ UNCHANGED <<mode, nIdx, notifAttempts, pageOps,
                             step, ip, begun, printed, endVars>>
         ELSE CatchNotification
  /\ UNCHANGED <<cfgVars, inputSeen, browserVars, pageVars, genVars, calls, whatsappPage>>

\* page.waitForTimeout(3000) is over; had it raised, the catch block would
\* lead to the same place
pauseElapsed ==
  /\ mode = "notif" /\ nsub = "pause" /\ timer = 0
  /\ NextPassenger(notifOutcome)
  /\ UNCHANGED <<cfgVars, inputSeen, browserVars, pageVars, genVars, calls, whatsappPage,
                 step, ip, begun, printed, endVars>>

\* sendNotifications returned: the last progress line, then the finally block
executeBookingReturn ==
  /\ mode = "notifDone"
  /\ printed' = Append(printed, ProgressLine(11))
  /\ Finally(NoErr, browser)
  /\ UNCHANGED <<cfgVars, inputSeen, browserVars, pageVars, genVars, notifVars, calls, timer,
                 step, ip, begun>>

\* ------------------------------------------------- teardown and process exit
\* browser.close() settled inside BrowserService.close(): on success the
\* fields are cleared, an error is logged and swallowed; executeBooking then
\* settles
\* close without the try/catch around browser.close()
closeRaising ==
  /\ mode = "closing"
  /\ \E ok \in BOOLEAN :
       IF ok
         THEN /\ browser' = "null" /\ page' = "null" /\ sessionLive' = FALSE
              /\ UNCHANGED pendingErr
              /\ Settle(pendingErr)
         ELSE /\ UNCHANGED <<browser, page, sessionLive>>
              /\ pendingErr' = AppError("Error closing browser", NoSel,
                                        "UNKNOWN_ERROR", TRUE)
              /\ Settle(pendingErr')
  /\ UNCHANGED <<cfgVars, inputSeen, launched, pageVars, genVars, notifVars, calls, timer,
                 step, ip, begun, printed, closeCalls, browserCloseCalls>>

close ==
  /\ mode = "closing"
  /\ \E ok \in BOOLEAN :
       IF ok
         THEN browser' = "null" /\ page' = "null" /\ sessionLive' = FALSE
         ELSE UNCHANGED <<browser, page, sessionLive>>
  /\ Settle(pendingErr)
  /\ UNCHANGED <<cfgVars, inputSeen, launched, pageVars, genVars, notifVars, calls, timer,
                 step, ip, begun, printed, closeCalls, browserCloseCalls,
                 pendingErr>>

\* main returned and nothing keeps the event loop alive
processExit ==
  /\ mode = "mainDone"
  /\ mode' = "exited"
  /\ exitStatus' = 0
  /\ UNCHANGED <<cfgVars, inputSeen, browserVars, pageVars, genVars, notifVars, calls, timer,
                 step, ip, begun, printed, closeCalls, browserCloseCalls,
                 pendingErr, ebOutcome>>

\* SIGINT or SIGTERM: handleShutdown calls process.exit(0)
handleShutdown ==
  /\ exitStatus = -1
  /\ mode' = "exited"
  /\ exitStatus' = 0
  /\ UNCHANGED <<cfgVars, inputSeen, browserVars, pageVars, genVars, notifVars, calls, timer,
                 step, ip, begun, printed, closeCalls, browserCloseCalls,
                 pendingErr, ebOutcome>>

Next ==
  \/ main \/ initialize \/ StepDone
  \/ navigateTo \/ waitAndClick \/ typeText \/ keyboard
  \/ wait \/ Tick \/ userInput \/ waitResolved
  \/ generateTickets \/ generateMultipleTickets \/ generateMultipleTicketsReturn
  \/ sendNotifications \/ newPage
  \/ sendNotification \/ messageSettled \/ pauseElapsed
  \/ executeBookingReturn \/ close \/ processExit \/ handleShutdown

Spec == Init /\ [][Next]_vars

\* what the process and its collaborators do by themselves: every call
\* returns or raises, every timer fires; a signal or input of the user may
\* come or not
Progress ==
  \/ main \/ initialize \/ StepDone
  \/ navigateTo \/ waitAndClick \/ typeText \/ keyboard
  \/ wait \/ Tick \/ waitResolved
  \/ generateTickets \/ generateMultipleTickets \/ generateMultipleTicketsReturn
  \/ sendNotifications \/ newPage
  \/ sendNotification \/ messageSettled \/ pauseElapsed
  \/ executeBookingReturn \/ close \/ processExit

FairSpec == Spec /\ WF_vars(Progress)

\* ------------------------------------------- BrowserService called on its own
\* a live session on a page with one text field holding any content
InitDriver ==
  /\ config = AppConfig(<< >>, FALSE)
  /\ env = EnvOf(config)
  /\ browser = "live" /\ page = "live" /\ launched = TRUE
  /\ sessionLive = TRUE
  /\ \E content \in Strings(MaxStrLen) :
       fields = [s \in {Sel("#target")} |-> Field(content)]
  /\ mode = "driver" /\ step = 0 /\ ip = 1 /\ ebOutcome = "none"
  /\ InitCommon

driverFrame ==
  UNCHANGED <<cfgVars, inputSeen, browserVars, endVars, genVars, notifVars,
              mode, step, ip, begun, timer, printed>>

\* a caller invokes typeText(selector, text); a failure is raised to the caller
callTypeText ==
  /\ mode = "driver"
  /\ Len(calls) < MaxTypeCalls
  /\ \E sel \in DOMAIN fields, text \in Strings(MaxStrLen), ok \in BOOLEAN :
       /\ calls' = Append(calls, Entry(TypeTextCall(sel, text), "end",
                                       ok /\ page # "null"))
       /\ IF ok /\ page # "null"
            THEN /\ focus' = sel
                 /\ fields' = [fields EXCEPT ![sel] = typeTextField(@, text)]
                 /\ ctrlDown' = FALSE
                 /\ UNCHANGED confirmation
            ELSE UNCHANGED pageVars
  /\ driverFrame

\* a caller invokes waitAndClick(selector)
callWaitAndClick ==
  /\ mode = "driver"
  /\ Len(calls) < MaxTypeCalls
  /\ \E sel \in DOMAIN fields, ok \in BOOLEAN :
       /\ calls' = Append(calls, Entry(WaitAndClickCall(sel), "end",
                                       ok /\ page # "null"))
       /\ IF ok /\ page # "null"
            THEN /\ focus' = sel
                 /\ \E caret \in 0..Len(fields[sel].content) :
                      fields' = [fields EXCEPT ![sel] = ClickField(@, caret)]
                 /\ UNCHANGED <<ctrlDown, confirmation>>
            ELSE UNCHANGED pageVars
  /\ driverFrame

\* a caller invokes close(): browser.close() if a browser is held, whose
\* error is logged and swallowed, leaving browser and page as they were
callClose ==
  /\ mode = "driver"
  /\ closeCalls < MaxCloseCalls
  /\ closeCalls' = closeCalls + 1
  /\ IF browser = "live"
       THEN /\ browserCloseCalls' = browserCloseCalls + 1
            /\ \E ok \in BOOLEAN :
                 IF ok
                   THEN browser' = "null" /\ page' = "null" /\ sessionLive' = FALSE
                   ELSE UNCHANGED <<browser, page, sessionLive>>
       ELSE UNCHANGED <<browserCloseCalls, browser, page, sessionLive>>
  /\ UNCHANGED <<cfgVars, inputSeen, launched, pageVars, genVars, notifVars,
                 pendingErr, ebOutcome, exitStatus,
                 mode, step, ip, begun, calls, timer, printed>>

\* a caller invokes initialize(): this.browser is assigned when launch
\* returns and this.page when newPage returns, whatever fails afterwards; the
\* new page shows its fields untouched
callInitialize ==
  /\ mode = "driver"
  /\ \E failedAt \in {"launch", "newPage", "setup", "none"} :
       /\ browser' = IF failedAt = "launch" THEN browser ELSE "live"
       /\ launched' = (launched \/ failedAt # "launch")
       /\ page' = IF failedAt \in {"launch", "newPage"} THEN page ELSE "live"
       /\ sessionLive' = (sessionLive \/ failedAt = "none")
       /\ IF failedAt \in {"launch", "newPage"}
            THEN UNCHANGED <<fields, focus, ctrlDown>>
            ELSE /\ fields' = [s \in DOMAIN fields |-> Field(Stale)]
                 /\ focus' = NoSel /\ ctrlDown' = FALSE
  /\ UNCHANGED <<cfgVars, inputSeen, confirmation, endVars, genVars, notifVars,
                 mode, step, ip, begun, calls, timer, printed>>

\* a call of the session with no argument the model keeps
SessionCall(op) == [op |-> op, sel |-> NoSel, text |-> << >>, key |-> "", ms |-> 0]

\* a caller invokes navigateTo(url)
callNavigateTo ==
  /\ mode = "driver"
  /\ Len(calls) < MaxTypeCalls
  /\ \E ok \in BOOLEAN :
       /\ calls' = Append(calls, Entry(NavigateToCall("about:blank"), "end",
                                       ok /\ page # "null"))
       /\ IF ok /\ page # "null"
            THEN /\ fields' = [s \in DOMAIN fields |-> Field(Stale)]
                 /\ focus' = NoSel
                 /\ UNCHANGED <<ctrlDown, confirmation>>
            ELSE UNCHANGED pageVars
  /\ driverFrame

\* a caller invokes getPage(): this.page, or the error when there is none
callGetPage ==
  /\ mode = "driver"
  /\ Len(calls) < MaxTypeCalls
  /\ calls' = Append(calls, Entry(SessionCall("getPage"), "end", page # "null"))
  /\ UNCHANGED pageVars
  /\ driverFrame

\* a caller invokes getBrowser(): this.browser, or the error when there is none
callGetBrowser ==
  /\ mode = "driver"
  /\ Len(calls) < MaxTypeCalls
  /\ calls' = Append(calls, Entry(SessionCall("getBrowser"), "end",
                                  browser # "null"))
  /\ UNCHANGED pageVars
  /\ driverFrame

\* a caller invokes takeScreenshot(filename): an error of page.screenshot is
\* logged and swallowed
callTakeScreenshot ==
  /\ mode = "driver"
  /\ Len(calls) < MaxTypeCalls
  /\ calls' = Append(calls, Entry(SessionCall("takeScreenshot"), "end",
                                  page # "null"))
  /\ UNCHANGED pageVars
  /\ driverFrame

\* a caller invokes newPage(): browser.newPage() then setDefaultTimeout
callNewPage ==
  /\ mode = "driver"
  /\ Len(calls) < MaxTypeCalls
  /\ IF browser = "null"
       THEN /\ calls' = Append(calls, Entry(NewPageCall, "end", FALSE))
            /\ UNCHANGED whatsappPage
       ELSE \E failedAt \in {"newPage", "setup", "none"} :
              /\ calls' = Append(calls, Entry(NewPageCall, "end", failedAt = "none"))
              /\ whatsappPage' = IF failedAt = "newPage" THEN whatsappPage
                                                          ELSE "open"
  /\ UNCHANGED <<cfgVars, inputSeen, browserVars, pageVars, endVars, genVars,
                 nIdx, nsub, notifAttempts, notifOutcome, pageOps,
                 mode, step, ip, begun, timer, printed>>

NextDriver ==
  \/ callTypeText \/ callWaitAndClick \/ callClose
  \/ callInitialize \/ callNavigateTo \/ callGetPage \/ callGetBrowser
  \/ callTakeScreenshot \/ callNewPage

DriverSpec == InitDriver /\ [][NextDriver]_vars

\* ------------------------------------------- the JavaScript implementation
\* the steps of the JavaScript IRCTCAutomationService, call by call
JsNavigateToIRCTC ==
  << NavigateToCall("https://www.irctc.co.in/nget/train-search"),
     WaitAndClickCall(Sel("button.btn.btn-primary")) >>

JsSearchTrains(cfg) ==
  LET from == cfg.journey.from
      to == cfg.journey.to
      date == cfg.journey.date
  IN  << TypeTextCall(Sel("input[aria-controls=pr_id_1_list]"), from),
         TypeTextCall(Sel("input[aria-controls=pr_id_2_list]"), to),
         WaitAndClickCall(Sel(".ng-tns-c59-10.ui-calendar")),
         KeyboardCall("keyboard.down", "Control"),
         KeyboardCall("keyboard.press", "a"),
         KeyboardCall("keyboard.up", "Control"),
         TypeTextCall(Sel(".ng-tns-c59-10.ui-calendar"), date),
         WaitAndClickCall(Sel(".ui-dropdown-trigger-icon")),
         WaitAndClickCall(Sel("label[for=availableBerth]")),
         WaitAndClickCall(Sel(".search_btn.train_Search")) >>

JsSelectTrain ==
  << WaitAndClickCall(Sel("#divMain td:nth-child(1) > div")),
     WaitAndClickCall(Sel("#divMain button.btnDefault.train_Search")),
     WaitAndClickCall(Sel(".ui-confirmdialog-acceptbutton")) >>

JsLoginToIRCTC(cfg) ==
  LET userId == cfg.irctc.userId
      password == cfg.irctc.password
  IN  << WaitAndClickCall(Sel("#userId")),
         TypeTextCall(Sel("#userId"), userId),
         WaitAndClickCall(Sel("#pwd")),
         TypeTextCall(Sel("#pwd"), password),
         WaitCall(10000),
         WaitAndClickCall(Sel(".search_btn.train_Search")) >>

\* the two loops of the JavaScript fillPassengerDetails: one activation for
\* each i in 1..length-1, then one row for each i in 0..length-1
JsFillPassengerDetails(cfg) ==
  LET passengers == cfg.journey.passengers
      adds == [i \in 1..(IF Len(passengers) > 0 THEN Len(passengers) - 1 ELSE 0) |->
                 WaitAndClickCall(Sel("#ui-panel-12-content a > span"))]
      Row(i) ==
        LET passenger == passengers[i + 1]
            passengerIndex == i + 1
        IN  << WaitAndClickCall(PassengerSel("name", passengerIndex)),
               TypeTextCall(PassengerSel("name", passengerIndex), passenger.name),
               WaitAndClickCall(PassengerSel("age", passengerIndex)),
               TypeTextCall(PassengerSel("age", passengerIndex), passenger.age),
               WaitAndClickCall(PassengerSel("gender", passengerIndex)),
               TypeTextCall(PassengerSel("gender", passengerIndex), passenger.gender),
               KeyboardCall("keyboard.press", "Enter") >>
      rows == [k \in 1..(7 * Len(passengers)) |->
                 Row((k - 1) \div 7)[((k - 1) % 7) + 1]]
  IN  adds \o rows

JsFillContactDetails(cfg) ==
  LET contactDetails == cfg.journey.contactDetails
  IN  << WaitAndClickCall(Sel("input[formcontrolname=mobileNumber]")),
         TypeTextCall(Sel("input[formcontrolname=mobileNumber]"), contactDetails.contact),
         TypeTextCall(Sel("#aaa1"), contactDetails.address),
         TypeTextCall(Sel("input[formcontrolname=pinCode]"), contactDetails.pin),
         WaitAndClickCall(Sel("#address-postOffice")),
         TypeTextCall(Sel("#address-postOffice"), <<"B">>),
         KeyboardCall("keyboard.press", "Enter"),
         WaitAndClickCall(Sel("label[for=autoUpgradation]")),
         WaitAndClickCall(Sel("#travelInsuranceOptedYes-0")),
         WaitAndClickCall(Sel(".ui-radiobutton-icon")),
         WaitAndClickCall(Sel(".train_Search.btnDefault")) >>

JsProceedToPayment ==
  << WaitCall(15000),
     WaitAndClickCall(Sel(".train_Search.btnDefault")),
     WaitAndClickCall(Sel("div.col-pad.col-xs-12.bank-text")),
     WaitAndClickCall(Sel(".btn.btn-primary.hidden-xs")) >>

JsFillPaymentDetails(cfg) ==
  LET paymentDetails == cfg.journey.paymentDetails
  IN  << WaitAndClickCall(Sel(".userCardNumber")),
         TypeTextCall(Sel(".userCardNumber"), paymentDetails.cardNo),
         WaitAndClickCall(Sel("#validity")),
         TypeTextCall(Sel("#validity"), paymentDetails.expiry),
         WaitAndClickCall(Sel("#divCvv")),
         TypeTextCall(Sel("#divCvv"), paymentDetails.cvv),
         WaitAndClickCall(Sel("input[name=cardName]")),
         TypeTextCall(Sel("input[name=cardName]"), paymentDetails.name),
         WaitAndClickCall(Sel("#confirm-purchase")) >>

\* JsStepScript with the login before the choice of the train
JsStepScriptLoginFirst(s, cfg) ==
  CASE s = 2 -> JsNavigateToIRCTC
    [] s = 3 -> JsSearchTrains(cfg)
    [] s = 4 -> JsLoginToIRCTC(cfg)
    [] s = 5 -> JsSelectTrain
    [] s = 6 -> JsFillPassengerDetails(cfg)
    [] s = 7 -> JsFillContactDetails(cfg)
    [] s = 8 -> JsProceedToPayment
    [] s = 9 -> JsFillPaymentDetails(cfg)
    [] OTHER -> << >>

\* the calls of step s (2..9) of the JavaScript executeBooking
JsStepScript(s, cfg) ==
  CASE s = 2 -> JsNavigateToIRCTC
    [] s = 3 -> JsSearchTrains(cfg)
    [] s = 4 -> JsSelectTrain
    [] s = 5 -> JsLoginToIRCTC(cfg)
    [] s = 6 -> JsFillPassengerDetails(cfg)
    [] s = 7 -> JsFillContactDetails(cfg)
    [] s = 8 -> JsProceedToPayment
    [] s = 9 -> JsFillPaymentDetails(cfg)
    [] OTHER -> << >>

\* the line the JavaScript executeBooking prints after step s returned
JsProgressLine(s) ==
  CASE s = 1 -> "Browser initialized"
    [] s = 2 -> "Navigated to IRCTC website"
    [] s = 3 -> "Train search completed"
    [] s = 4 -> "Train selected"
    [] s = 5 -> "Login completed"
    [] s = 6 -> "Passenger details filled"
    [] s = 7 -> "Contact details filled"
    [] s = 8 -> "Payment section reached"
    [] s = 9 -> "Payment details filled"
    [] s = 10 -> "PDF tickets generated"
    [] s = 11 -> "Notifications sent"

\* passengers.map(passenger => ({...})) of the JavaScript generateTickets
JsTicketsData(journey) ==
  LET passengers == journey.passengers
      from == journey.from
      to == journey.to
  IN  [i \in 1..Len(passengers) |->
         [passengerName |-> passengers[i].name,
          age |-> passengers[i].age,
          gender |-> passengers[i].gender,
          fromStation |-> from,
          toStation |-> to,
          transactionId |-> "0095562596",
          pnrNumber |-> "6422380568"]]

\* new Error(message) of the JavaScript BrowserService: no type, no cause
JsError(message, arg) ==
  [name |-> "Error", message |-> message, arg |-> arg, type |-> "",
   hasCause |-> FALSE]

\* the error a call of the JavaScript BrowserService raises when it fails
JsCallError(c) ==
  CASE c.op = "initialize" -> JsError("Browser initialization failed", NoSel)
    [] c.op = "navigateTo" -> JsError("Navigation failed", c.sel)
    [] c.op = "waitAndClick" -> JsError("Element click failed", c.sel)
    [] c.op = "typeText" -> JsError("Text input failed", c.sel)
    [] OTHER -> RawError

\* ================================================================ properties
Last(seq) == seq[Len(seq)]

OneTo(n) == [i \in 1..n |-> i]

\* C1: in every run of executeBooking, whichever step fails or none,
\* BrowserService.close() is invoked exactly once, after the last step
\* attempted, and browser.close() exactly once when a browser was launched
\* (never twice, and never at all when none was launched)
C1_TeardownExactlyOnce ==
  /\ closeCalls <= 1
  /\ browserCloseCalls <= 1
  /\ ebOutcome \in {"completed", "raised"} =>
       /\ closeCalls = 1
       /\ browserCloseCalls = IF launched THEN 1 ELSE 0
  /\ closeCalls = 1 => mode \in {"closing", "mainDone", "exited"}
  /\ browserCloseCalls = 1 => closeCalls = 1 /\ launched

\* a run that failed in loginToIRCTC and closed the browser it had launched
C1_Witness ==
  /\ ebOutcome = "raised" /\ step = 5 /\ launched
  /\ closeCalls = 1 /\ browserCloseCalls = 1

\* C2: when a call of steps 1-9 fails, it is the last call of the run: no
\* later step begins, no ticket record is built, no PDF is written, no
\* secondary page is opened and no notification is attempted
C2_FailFast ==
  /\ Len(calls) >= 2 =>
       (calls[Len(calls) - 1].step \in 1..9 => calls[Len(calls) - 1].ok)
  /\ (calls # << >> /\ Last(calls).step \in 1..9 /\ ~Last(calls).ok) =>
       /\ step = Last(calls).step
       /\ begun = OneTo(step)
       /\ mode \in {"closing", "exited"}
       /\ ticketsBuilt = 0 /\ ticketsData = << >> /\ genAttempts = << >>
       /\ files = {}
       /\ whatsappPage = "none" /\ notifAttempts = << >> /\ pageOps = << >>

\* selectTrain failed and the run ended with that error
C2_Witness ==
  /\ calls # << >> /\ Last(calls).step = 4 /\ ~Last(calls).ok
  /\ ebOutcome = "raised" /\ mode = "exited"

\* the paths of the records whose generateTicket succeeded, in input order
SucceededPaths ==
  LET idx == SelectSeq(OneTo(Len(genOutcome)), LAMBDA i : genOutcome[i])
  IN  [j \in 1..Len(idx) |-> TicketPath(ticketsData[idx[j]])]

\* C3: generateMultipleTickets attempts every record once, in input order,
\* whichever attempts fail; a failing record does not raise out of it, and
\* the list returned holds the paths of the records that succeeded, in order
C3_GenerateMultipleTicketsContinues ==
  /\ mode = "gen" =>
       /\ genAttempts = OneTo(genIdx - 1)
       /\ Len(genOutcome) = genIdx - 1
       /\ genIdx <= Len(ticketsData) + 1
  /\ mode = "genDone" =>
       /\ genAttempts = OneTo(Len(ticketsData))
       /\ Len(genOutcome) = Len(ticketsData)
  /\ mode \in {"gen", "genDone"} => generatedFiles = SucceededPaths
  /\ step = 10 => pendingErr = NoErr /\ ebOutcome = "running" /\ closeCalls = 0

\* three records, the second of which failed, the third still written
C3_Witness ==
  /\ mode = "genDone"
  /\ genOutcome = <<TRUE, FALSE, TRUE>>
  /\ Len(generatedFiles) = 2

\* C4: with notifications enabled, sendMultipleNotifications attempts every
\* passenger once, in list order, one attempt at a time, whichever attempts
\* fail; no failure of an attempt leaves sendMultipleNotifications
C4_NotificationsContinue ==
  config.whatsapp.enabled =>
    /\ mode = "notif" =>
         /\ notifAttempts = OneTo(nIdx)
         /\ nIdx <= Len(Passengers)
         /\ Len(notifOutcome) = IF nsub = "pause" THEN nIdx ELSE nIdx - 1
    /\ mode = "notifDone" =>
         /\ notifAttempts = OneTo(Len(Passengers))
         /\ Len(notifOutcome) = Len(Passengers)
    /\ (step = 11 /\ pendingErr # NoErr) =>
         notifAttempts = << >> /\ notifOutcome = << >>

\* the first passenger's notification failed, the second was sent
C4_Witness ==
  /\ config.whatsapp.enabled
  /\ mode = "notifDone"
  /\ notifOutcome = <<"failed", "sent">>

\* C5: the ticket records built by generateTickets follow the passenger
\* list: same length, and record i carries the name, age and gender of
\* passenger i and the origin and destination of the journey
C5_TicketRecordsFollowPassengers ==
  /\ mode \in {"gen", "genDone"} =>
       /\ Len(ticketsData) = Len(Passengers)
       /\ \A i \in 1..Len(Passengers) :
            /\ ticketsData[i].passengerName = Passengers[i].name
            /\ ticketsData[i].age = Passengers[i].age
            /\ ticketsData[i].gender = Passengers[i].gender
            /\ ticketsData[i].fromStation = config.journey.from
            /\ ticketsData[i].toStation = config.journey.to
  /\ step >= 10 => ticketsBuilt = Len(Passengers)

\* records built for three passengers, the first and last of whom differ
C5_Witness ==
  /\ mode = "gen"
  /\ Len(ticketsData) = 3
  /\ Passengers[1] # Passengers[3]

\* the typeText and key press calls of fillPassengerDetails so far
Step6Ops ==
  SelectSeq(calls, LAMBDA e : e.step = 6
                              /\ e.call.op \in {"typeText"} \cup KeyboardOps)

\* what the k-th of them has to be: rows in ascending order, and in each row
\* name, age, gender and one Enter
RowOp(k) ==
  LET row == ((k - 1) \div 4) + 1
      j == (k - 1) % 4
      p == Passengers[row]
  IN  CASE j = 0 -> TypeTextCall(PassengerSel("name", row), p.name)
        [] j = 1 -> TypeTextCall(PassengerSel("age", row), p.age)
        [] j = 2 -> TypeTextCall(PassengerSel("gender", row), p.gender)
        [] j = 3 -> KeyboardCall("keyboard.press", "Enter")

\* C6: fillPassengerDetails writes the name, age and gender of passengers[i]
\* into row i+1 and nowhere else: the rows are written once each in
\* ascending order, each as name, age, gender and one Enter, and when the
\* step is over every row holds its passenger's data
C6_RowsFollowPassengers ==
  /\ (calls # << >> /\ Last(calls).step = 6
        /\ Last(calls).call.op \in {"typeText"} \cup KeyboardOps) =>
       /\ Len(Step6Ops) <= 4 * Len(Passengers)
       /\ Last(calls).call = RowOp(Len(Step6Ops))
  /\ (step = 7 /\ mode = "run") =>
       /\ Len(Step6Ops) = 4 * Len(Passengers)
       /\ \A row \in 1..Len(Passengers) :
            /\ fields[PassengerSel("name", row)].content = Passengers[row].name
            /\ fields[PassengerSel("age", row)].content = Passengers[row].age
            /\ fields[PassengerSel("gender", row)].content
                 = Passengers[row].gender

\* three passengers entered, the first and last of whom differ
C6_Witness ==
  /\ step = 7 /\ mode = "run"
  /\ Len(Passengers) = 3
  /\ Passengers[1] # Passengers[3]
  /\ fields[PassengerSel("name", 3)].content = Passengers[3].name

\* the errors a step can raise, and the steps that can raise a given error
StepErrors(s) ==
  CASE s = 1 -> {InitializationFailed}
    [] s \in 2..9 -> {CallError(c) : c \in Range(StepScript(s, config))}
                       \cup {NotInitialized}
    [] s = 10 -> {}
    [] s = 11 -> {RawError, NotInitialized}

StepsRaising(err) == {s \in 1..11 : err \in StepErrors(s)}

\* C7: the error that leaves executeBooking is a domain error carrying its
\* cause, and it identifies the step in which the call failed
C7_ErrorIdentifiesStep ==
  ebOutcome = "raised" =>
    /\ pendingErr.name = "AppError"
    /\ pendingErr.hasCause
    /\ StepsRaising(pendingErr) = {step}

\* C8: the exit status is 1 whenever executeBooking raised, and 0 whenever
\* it completed, however many tickets or notifications failed
C8_ExitStatus ==
  /\ ebOutcome = "raised" => exitStatus = 1
  /\ (ebOutcome = "completed" /\ exitStatus # -1) => exitStatus = 0

\* a completed run that lost a ticket and a notification and exited with 0
C8_Witness ==
  /\ ebOutcome = "completed" /\ exitStatus = 0
  /\ "failed" \in Range(notifOutcome)
  /\ Cardinality(files) < Cardinality({TicketPath(r) :
                                         r \in Range(TicketsData(config.journey))})

\* C9: after typeText(target, Y) succeeds the target holds exactly Y,
\* whatever it held before
C9_TypeTextOverwrites ==
  (calls # << >> /\ Last(calls).call.op = "typeText" /\ Last(calls).ok) =>
    fields[Last(calls).call.sel].content = Last(calls).call.text

\* the positions in the log of the entries that satisfy a test
Positions(Test(_)) == {k \in 1..Len(calls) : Test(calls[k])}

TypedOk(e, css) == e.call.op = "typeText" /\ e.call.sel = Sel(css) /\ e.ok

PauseOver(e, ms) == e.call = WaitCall(ms) /\ e.phase = "end"

\* C10: in loginToIRCTC the pause of 10000 ms starts after userId and
\* password were typed and the login-submit click comes after its end; the
\* pause of 15000 ms starts after the proceed click of the contact step, and
\* no click of the payment steps, confirm-purchase included, comes before
\* its end
C10_PausesGate ==
  LET e == Last(calls) IN
  calls # << >> =>
    /\ (e.step = 5 /\ e.call.op = "wait") =>
         /\ e.call.ms = 10000
         /\ Positions(LAMBDA d : TypedOk(d, "#userId")) # {}
         /\ Positions(LAMBDA d : TypedOk(d, "#pwd")) # {}
    /\ (e.step = 5 /\ e.call = WaitAndClickCall(Sel(".search_btn.train_Search")))
         => Positions(LAMBDA d : PauseOver(d, 10000)) # {}
    /\ (e.step \in {8, 9} /\ e.call.op = "wait") =>
         /\ e.call.ms = 15000
         /\ calls[Len(calls) - (IF e.phase = "start" THEN 1 ELSE 2)]
              = [step |-> 7, phase |-> "end", ok |-> TRUE,
                 call |-> WaitAndClickCall(Sel(".train_Search.btnDefault"))]
    /\ (e.step \in {8, 9} /\ e.call.op = "waitAndClick")
         => Positions(LAMBDA d : PauseOver(d, 15000)) # {}
    /\ (mode = "waiting" /\ timer > 0) => e.call.op = "wait" /\ e.phase = "start"
    /\ (e.call.op = "wait" /\ e.phase = "end") => timer = 0

\* the confirm-purchase click of a run
C10_Witness ==
  /\ calls # << >>
  /\ Last(calls).call = WaitAndClickCall(Sel("#confirm-purchase"))
  /\ Last(calls).ok

\* C11: wait(ms) returns only when the ms it was started with have run
\* down, and they run down with the passage of time alone: input of the user
\* or a change of the page during the pause moves neither the timer nor the
\* orchestrator
C11_WaitBlocks ==
  [][/\ (mode # "waiting" /\ mode' = "waiting") => timer' = CurCall.ms
     /\ (mode = "waiting" /\ mode' = "run") => timer = 0
     /\ (mode = "waiting" /\ timer' # timer) =>
          /\ timer' < timer /\ timer - timer' <= TickMs
          /\ inputSeen' = inputSeen
     /\ (mode = "waiting" /\ inputSeen' # inputSeen /\ inputSeen') =>
          /\ timer' = timer /\ mode' = mode /\ ip' = ip /\ calls' = calls]_vars

\* the user has typed while time is left on the pause of 15000 ms
C11_Witness ==
  /\ mode = "waiting" /\ step = 8
  /\ inputSeen /\ timer > 0

\* the calls of the step in progress that have returned or raised
StepEnds == SelectSeq(calls, LAMBDA e : e.step = step /\ e.phase = "end")

C13_Terminates ==
  (ebOutcome = "running")
    ~> (ebOutcome \in {"completed", "raised"} /\ closeCalls = 1)

\* -------------------------------------------------- the start of the process
\* the process before config/index.ts is loaded, in any environment
InitConfig ==
  /\ env \in Envs
  /\ config = NoConfig
  /\ browser = "null" /\ page = "null" /\ launched = FALSE
  /\ sessionLive = FALSE
  /\ fields = << >>
  /\ mode = "load" /\ step = 0 /\ ip = 1 /\ ebOutcome = "none"
  /\ InitCommon

\* the module is loaded: Config.getInstance() builds the singleton, whose
\* constructor runs loadConfig; the error of validateRequiredEnvVars leaves
\* the module as an uncaught exception and the process ends before main
loadModule ==
  /\ mode = "load"
  /\ LET missingVars == MissingVars(env) IN
       IF Len(missingVars) > 0
         THEN /\ loadErr' = missingVars
              /\ mode' = "exited" /\ exitStatus' = 1
              /\ UNCHANGED config
         ELSE /\ config' = loadConfig(env)
              /\ mode' = "start"
              /\ UNCHANGED <<loadErr, exitStatus>>
  /\ UNCHANGED <<env, inputSeen, browserVars, pageVars, genVars, notifVars,
                 closeCalls, browserCloseCalls, pendingErr, ebOutcome,
                 step, ip, begun, calls, timer, printed>>

NextConfig == loadModule \/ main \/ initialize

ConfigSpec == InitConfig /\ [][NextConfig]_vars

\* the required variables that are unset or empty
Absent == {v \in Range(RequiredVars) : v \notin DOMAIN env \/ env[v] = << >>}

\* the place of a required variable in the required list
Place(v) == CHOOSE i \in 1..Len(RequiredVars) : RequiredVars[i] = v

\* C14: when a required variable is unset or empty, loading the
\* configuration fails with an error that names the missing variables, all
\* of them and no other, in the order of the required list, and the process
\* ends there: no orchestrator is built, executeBooking never starts and no
\* browser is launched
C14_MissingVarsFailFast ==
  /\ mode # "load" => (loadErr # << >> <=> Absent # {})
  /\ loadErr # << >> =>
       /\ Range(loadErr) = Absent
       /\ \A i, j \in 1..Len(loadErr) :
            i < j => Place(loadErr[i]) < Place(loadErr[j])
       /\ mode = "exited" /\ exitStatus = 1
  /\ Absent # {} =>
       /\ config = NoConfig
       /\ ebOutcome = "none" /\ begun = << >> /\ calls = << >>
       /\ ~launched /\ browser = "null"

\* ADDRESS is unset and FROM_STATION is empty: the error names both, the
\* origin first
C14_Witness ==
  /\ "ADDRESS" \notin DOMAIN env
  /\ "FROM_STATION" \in DOMAIN env /\ env["FROM_STATION"] = << >>
  /\ loadErr = <<"FROM_STATION", "ADDRESS">>

\* C15: with every required variable set to a non-empty value, the
\* configuration holds each value unchanged in its field, headless is true
\* exactly when HEADLESS is 'true' and whatsapp.enabled exactly when
\* WHATSAPP_ENABLED is 'true'
C15_ConfigFollowsEnv ==
  (Absent = {} /\ mode # "load") =>
    /\ config.irctc.userId = env["IRCTC_USER_ID"]
    /\ config.irctc.password = env["IRCTC_PASSWORD"]
    /\ config.journey.from = env["FROM_STATION"]
    /\ config.journey.to = env["TO_STATION"]
    /\ config.journey.date = env["JOURNEY_DATE"]
    /\ config.journey.contactDetails.contact = env["CONTACT_NUMBER"]
    /\ config.journey.contactDetails.address = env["ADDRESS"]
    /\ config.journey.contactDetails.pin = env["PIN_CODE"]
    /\ config.journey.paymentDetails.cardNo = env["CARD_NUMBER"]
    /\ config.journey.paymentDetails.expiry = env["CARD_EXPIRY"]
    /\ config.journey.paymentDetails.cvv = env["CARD_CVV"]
    /\ config.journey.paymentDetails.name = env["CARD_HOLDER_NAME"]
    /\ config.browser.headless
         <=> ("HEADLESS" \in DOMAIN env /\ env["HEADLESS"] = <<"t", "r", "u", "e">>)
    /\ config.whatsapp.enabled
         <=> ("WHATSAPP_ENABLED" \in DOMAIN env
                /\ env["WHATSAPP_ENABLED"] = <<"t", "r", "u", "e">>)

\* origin and destination differ and HEADLESS is 'TRUE', which is not 'true'
C15_Witness ==
  /\ mode = "start"
  /\ config.journey.from = <<"2">> /\ config.journey.to = <<"1">>
  /\ "HEADLESS" \in DOMAIN env /\ env["HEADLESS"] = <<"T", "R", "U", "E">>
  /\ ~config.browser.headless

\* C16: with notifications disabled, a run that has come through steps
\* 1-10 has built one ticket record per passenger, does nothing on the
\* messaging page for any passenger, and does not fail
C16_DisabledRunSucceeds ==
  (~config.whatsapp.enabled /\ step = 11) =>
    /\ ticketsBuilt = Len(Passengers)
    /\ pageOps = << >>
    /\ "sent" \notin Range(notifOutcome) /\ "failed" \notin Range(notifOutcome)
    /\ ebOutcome # "raised" /\ exitStatus # 1

\* C17: the ticket records of a run all carry the transaction id and the
\* reservation id that the site showed when the purchase was confirmed
C17_IdsFromSite ==
  mode \in {"gen", "genDone"} =>
    \A i \in 1..Len(ticketsData) :
      /\ ticketsData[i].transactionId = confirmation.transactionId
      /\ ticketsData[i].pnrNumber = confirmation.pnrNumber

\* C18: after any close() calls on a BrowserService, browser.close() has been
\* invoked at most once and the service holds no browser any more
C18_CloseIdempotent ==
  /\ browserCloseCalls <= 1
  /\ closeCalls >= 1 => browser = "null" /\ page = "null"

\* the error of the call that failed last
FailureOf(e) ==
  CASE e.call.op = "initialize" -> InitializationFailed
    [] e.call.op = "newPage" -> RawError
    [] OTHER -> CallError(e.call)

\* C19: what executeBooking ends with depends on the steps alone, whether
\* browser.close() failed or not: it raises the error of the call that
\* failed, and completes when no call failed
C19_TeardownKeepsOutcome ==
  ebOutcome \in {"completed", "raised"} =>
    /\ ebOutcome = "raised" <=> (calls # << >> /\ ~Last(calls).ok)
    /\ ebOutcome = "raised" => pendingErr = FailureOf(Last(calls))
    /\ ebOutcome = "completed" => pendingErr = NoErr

\* selectTrain failed, then browser.close() failed: the browser is still held
C19_Witness ==
  /\ ebOutcome = "raised" /\ step = 4
  /\ browserCloseCalls = 1 /\ browser = "live"
  /\ pendingErr = FailureOf(Last(calls))

\* C20: the process of a started run ends only when executeBooking has
\* completed or raised and close() was called, and it ends with status 0 only
\* when executeBooking completed
C20_NoExternalAbort ==
  (exitStatus # -1 /\ ebOutcome # "none") =>
    /\ ebOutcome \in {"completed", "raised"}
    /\ closeCalls = 1
    /\ exitStatus = 0 => ebOutcome = "completed"


\* C21: the journey request is read-only: no step of executeBooking, nor the
\* generation of the tickets or the notifications, changes config.journey
\* (stations, date, the passenger list and its order, any passenger, contact
\* or payment field), on success and on every failure path
C21_JourneyReadOnly == [][config'.journey = config.journey]_vars

\* a run over several passengers went through every step and completed
C21_Witness ==
  /\ ebOutcome = "completed" /\ Len(Passengers) >= 2
  /\ ticketsBuilt = Len(Passengers) /\ Len(notifAttempts) = Len(Passengers)


\* the calls of fillPassengerDetails so far
Step6Calls == SelectSeq(calls, LAMBDA e : e.step = 6)

\* the add activations to expect for the passenger list
AddsExpected == IF Len(Passengers) >= 1 THEN Len(Passengers) - 1 ELSE 0

\* C22: for n passengers fillPassengerDetails activates "add another
\* passenger" exactly n-1 times (never for n <= 1), all of them before the
\* first field of row 1 is written, so that every row is written with all the
\* activations completed; for n = 0 it makes no call at all
C22_AddClicksFirst ==
  LET ents == Step6Calls
      adds == SelectSeq(ents, LAMBDA e : e.call = AddPassengerCall)
  IN  /\ (calls # << >> /\ Last(calls).step = 6) =>
            /\ (Last(calls).call = AddPassengerCall) <=> (Len(ents) <= AddsExpected)
            /\ Len(ents) > AddsExpected =>
                  /\ Len(adds) = AddsExpected
                  /\ \A k \in 1..Len(adds) : adds[k].ok
                  /\ Len(Passengers) >= 1
      /\ (step = 6 /\ mode = "run" /\ ip > StepLen(6)) =>
            /\ Len(adds) = AddsExpected
            /\ Len(Passengers) = 0 => ents = << >>
            /\ Len(Passengers) = 1 => adds = << >>

\* the last row of three passengers is being written after two activations
C22_Witness ==
  /\ Len(Passengers) = 3 /\ step = 6
  /\ calls # << >> /\ Last(calls).call = TypeTextCall(PassengerSel("name", 3),
                                                         Passengers[3].name)
  /\ Last(calls).ok
  /\ Len(SelectSeq(calls, LAMBDA e : e.step = 6 /\ e.call = AddPassengerCall)) = 2


\* C23: in sendMultipleNotifications the attempt for the next passenger starts
\* only when the pause of 3000 ms that follows the previous attempt has
\* elapsed, whether that attempt succeeded or failed
C23_PauseBetweenPassengers ==
  [][(mode = "notif" /\ mode' = "notif" /\ nIdx' = nIdx + 1)
       => (nsub = "pause" /\ timer = 0)]_vars


\* the progress lines of steps 1..n
StepLines(n) == [k \in 1..n |-> ProgressLine(k)]

Normalised(name) ==
  LET kept == SelectSeq(OneTo(Len(name)),
                        LAMBDA k : name[k] # " " \/ k = 1 \/ name[k - 1] # " ")
  IN  [j \in 1..Len(kept) |-> IF name[kept[j]] = " " THEN "_" ELSE name[kept[j]]]

\* the last record attempted so far whose file is f
LastAttemptAt(f) ==
  CHOOSE i \in 1..Len(genOutcome) :
    /\ TicketPath(ticketsData[i]) = f
    /\ \A j \in (i + 1)..Len(genOutcome) : TicketPath(ticketsData[j]) # f

\* C25: the file of a ticket record is tickets/<name>_ticket.pdf with each
\* run of whitespace of the passenger name replaced by one underscore, and
\* depends on nothing else: the same record gives the same path, records
\* whose names are equal after the replacement share one path, the later
\* emission overwrites the earlier, and so the files are at most as many as
\* the records emitted
C25_PathByName ==
  mode \in {"gen", "genDone"} =>
    /\ \A i \in 1..Len(ticketsData) :
         TicketPath(ticketsData[i]) =
           <<"tickets/">> \o Normalised(ticketsData[i].passengerName)
                         \o <<"_ticket.pdf">>
    /\ \A i, j \in 1..Len(ticketsData) :
         (Normalised(ticketsData[i].passengerName)
            = Normalised(ticketsData[j].passengerName))
           <=> (TicketPath(ticketsData[i]) = TicketPath(ticketsData[j]))
    /\ \A f \in DOMAIN fileContent :
         genOutcome[LastAttemptAt(f)] =>
           /\ fileContent[f] = ticketsData[LastAttemptAt(f)]
           /\ f \in files
    /\ files \subseteq DOMAIN fileContent
    /\ Cardinality(files) <= Len(SucceededPaths)

\* two passengers whose names differ in their whitespace only: both tickets
\* were generated and one file is left, holding the second
C25_Witness ==
  /\ mode = "genDone" /\ genOutcome = <<TRUE, TRUE>>
  /\ ticketsData[1].passengerName # ticketsData[2].passengerName
  /\ Cardinality(files) = 1
  /\ \A f \in files : fileContent[f] = ticketsData[2]


\* the sub-steps of sendNotification in the order of the code
SubSteps == <<"goto", "load", "search", "message">>

\* C26: for a passenger with notifications enabled sendNotification goes to
\* the messaging service, waits for it to be ready, searches and selects the
\* contact and then sends the message, in this order, so that the message is
\* sent only after the other three succeeded; and whenever the attempt for a
\* passenger ends with an error, no message was sent to that passenger
C26_NotificationSubSteps ==
  [][/\ pageOps' = SubSeq(SubSteps, 1, Len(pageOps'))
     /\ (Len(notifOutcome') > Len(notifOutcome) /\ Last(notifOutcome') = "failed")
          => "message" \notin Range(pageOps)]_vars


\* C27: when browserService.newPage() fails in sendNotifications, after the
\* tickets were generated, the failure is not passed over: it is the error
\* of executeBooking, no notification is attempted for any passenger,
\* close() still runs exactly once, and the process exits with status 1
C27_NewPageFailurePropagates ==
  (calls # << >> /\ Last(calls).call = NewPageCall /\ ~Last(calls).ok) =>
    /\ step = 11 /\ begun = OneTo(11)
    /\ ticketsBuilt = Len(Passengers)
    /\ Last(printed) = FailureLine
    /\ printed[Len(printed) - 1] = ProgressLine(10)
    /\ pendingErr = RawError
    /\ notifAttempts = << >> /\ notifOutcome = << >> /\ pageOps = << >>
    /\ closeCalls = 1 /\ browserCloseCalls = 1
    /\ mode \in {"closing", "exited"}
    /\ ebOutcome # "completed"
    /\ ebOutcome = "raised" => exitStatus = 1

\* three tickets were written, then the secondary page could not be opened
C27_Witness ==
  /\ calls # << >> /\ Last(calls).call = NewPageCall /\ ~Last(calls).ok
  /\ Cardinality(files) >= 2 /\ Len(Passengers) = 3
  /\ ebOutcome = "raised" /\ exitStatus = 1 /\ closeCalls = 1


\* C28: when puppeteer.launch succeeded and a later part of initialize failed
\* (the first page, its default timeout or its viewport), initialize raises,
\* no further step runs, and the finally block of executeBooking calls
\* browser.close() on the launched browser exactly once
C28_LaunchedBrowserClosed ==
  (calls # << >> /\ Last(calls).call = InitializeCall /\ ~Last(calls).ok
     /\ launched) =>
    /\ Len(calls) = 1
    /\ step = 1 /\ begun = <<1>>
    /\ pendingErr = InitializationFailed
    /\ closeCalls = 1 /\ browserCloseCalls = 1
    /\ mode \in {"closing", "exited"}
    /\ ebOutcome # "completed"
    /\ ebOutcome = "raised" => exitStatus = 1

\* the first page could not be opened; the browser was closed and released
C28_Witness ==
  /\ calls # << >> /\ Last(calls).call = InitializeCall /\ ~Last(calls).ok
  /\ launched /\ page = "null"
  /\ ebOutcome = "raised" /\ browserCloseCalls = 1 /\ browser = "null"


\* the operations of BrowserService that need a session
SessionOps ==
  {"navigateTo", "waitAndClick", "typeText", "getPage", "getBrowser", "newPage",
   "takeScreenshot"}

====
